---------------------------- MODULE Spec2Model ----------------------------
(***************************************************************************)
(* A model of the webhook client: the Embed document type of               *)
(* webhook_client/embed.py (constructor, from_dict, copy, the fluent       *)
(* setters, to_dict, __len__, __bool__) and the WebhookClient of           *)
(* webhook_client/client.py (the probe at construction, build_query,       *)
(* build_json, send).                                                      *)
(*                                                                         *)
(* Python values are tagged records, so that a str, an int, None, the      *)
(* EmptyEmbed sentinel, a dict and a list never compare equal by accident: *)
(*   [str |-> s]  [int |-> n]  [bool |-> b]  [none |-> TRUE]               *)
(*   [empty |-> TRUE]  (the EmptyEmbed sentinel)                           *)
(*   [dict |-> f]  (f a function from keys to values)                      *)
(*   [list |-> s]  (a list literal)   [ref |-> i]  (the list object i)     *)
(*   [colour |-> n]  (a Colour object)                                     *)
(*   [naive |-> w]  [wall |-> w, off |-> o]  (datetime objects)            *)
(*   [unset |-> TRUE]  (a slot that holds no attribute)                    *)
(***************************************************************************)
EXTENDS Integers, Sequences, FiniteSets, TLC

VARIABLES
    objs,      \* the Embed objects of the program: "e" (built by the constructor
               \* or from_dict) and "c" (e.copy()); NoObj while not built
    heap,      \* the list objects of the program (the _fields lists), by reference
    err,       \* the exception the last call raised, "none" if it returned
    calls,     \* the number of setter calls made so far
    origin,    \* history: how "e" was built ("init", "from_dict"), "none" before
    kwcol,     \* history: the colour and color options the constructor was given
    log,       \* history: the add_field calls made on "e", in call order
    last,      \* history: the last call (operation, object, whether the slot it
               \* is about held an attribute before the call)
    clients,   \* the WebhookClient objects that were constructed, by instance
    nclients,  \* the number of WebhookClient constructions attempted
    http       \* the HTTP requests issued, in order

vars == <<objs, heap, err, calls, origin, kwcol, log, last, clients, nclients, http>>

embedVars == <<objs, heap, calls, origin, kwcol, log, last>>
clientVars == <<clients, nclients, http>>

(***************************************************************************)
(* Bounds of the model.                                                    *)
(***************************************************************************)
MaxCalls == 3
MaxRequests == 4

(***************************************************************************)
(* Python values.                                                          *)
(***************************************************************************)
None == [none |-> TRUE]
EmptyEmbed == [empty |-> TRUE]
Unset == [unset |-> TRUE]
NoObj == [noobj |-> TRUE]
Str(s) == [str |-> s]
Num(n) == [int |-> n]
Bool(b) == [bool |-> b]
Dict(d) == [dict |-> d]
List(s) == [list |-> s]
Ref(i) == [ref |-> i]
Naive(w) == [naive |-> w]
Aware(w, o) == [wall |-> w, off |-> o]
EmptyDict == [k \in {} |-> None]

\* a keyword argument the caller leaves out, and the parameter's default
Omitted == [omitted |-> TRUE]
Default(v, d) == IF v = Omitted THEN d ELSE v

IsStr(v) == DOMAIN v = {"str"}
IsInt(v) == DOMAIN v = {"int"}
IsBool(v) == DOMAIN v = {"bool"}
IsNone(v) == DOMAIN v = {"none"}
IsDict(v) == DOMAIN v = {"dict"}
IsList(v) == DOMAIN v = {"list"}
IsRef(v) == DOMAIN v = {"ref"}
IsColour(v) == DOMAIN v = {"colour"}
IsNaive(v) == DOMAIN v = {"naive"}
IsAware(v) == DOMAIN v = {"wall", "off"}
IsDatetime(v) == IsNaive(v) \/ IsAware(v)

\* The result of a call: a returned value, or a raised exception.
Ok(v) == [exc |-> "none", val |-> v]
Raise(e) == [exc |-> e]

Digit(d) ==
    CASE d = 0 -> "0" [] d = 1 -> "1" [] d = 2 -> "2" [] d = 3 -> "3"
      [] d = 4 -> "4" [] d = 5 -> "5" [] d = 6 -> "6" [] d = 7 -> "7"
      [] d = 8 -> "8" [] d = 9 -> "9"

RECURSIVE NatToStr(_)
NatToStr(n) == IF n < 10 THEN Digit(n) ELSE NatToStr(n \div 10) \o Digit(n % 10)

IntToStr(n) == IF n < 0 THEN "-" \o NatToStr(0 - n) ELSE NatToStr(n)

\* str(v)
PyStr(v) ==
    IF IsStr(v) THEN v
    ELSE IF IsInt(v) THEN Str(IntToStr(v.int))
    ELSE IF IsBool(v) THEN Str(IF v.bool THEN "True" ELSE "False")
    ELSE IF IsNone(v) THEN Str("None")
    ELSE IF v = EmptyEmbed THEN Str("Embed.Empty")
    ELSE Str("<object>")

(***************************************************************************)
(* Colour (webhook_client/colour.py): a wrapper around a 24-bit integer;   *)
(* construction with a value outside 0..0xFFFFFF fails.                    *)
(***************************************************************************)
MaxColourValue == 16777215

ColourNew(v) ==
    IF ~IsInt(v) THEN Raise("TypeError")
    ELSE IF v.int >= 0 /\ v.int <= MaxColourValue THEN Ok([colour |-> v.int])
    ELSE Raise("OutOfRange")

\* bool(Colour): to_dict omits a colour that is "absent or zero/falsy".
ColourTruthy(c) == c.colour # 0

\* bool(v)
PyTruthy(v) ==
    IF IsStr(v) THEN v.str # ""
    ELSE IF IsInt(v) THEN v.int # 0
    ELSE IF IsBool(v) THEN v.bool
    ELSE IF IsNone(v) THEN FALSE
    ELSE IF v = EmptyEmbed THEN FALSE
    ELSE IF IsDict(v) THEN DOMAIN v.dict # {}
    ELSE IF IsList(v) THEN Len(v.list) > 0
    ELSE IF IsColour(v) THEN ColourTruthy(v)
    ELSE TRUE

\* len(v)
PyLen(v) ==
    IF IsStr(v) THEN Ok(Len(v.str))
    ELSE IF v = EmptyEmbed THEN Ok(0)
    ELSE IF IsDict(v) THEN Ok(Cardinality(DOMAIN v.dict))
    ELSE IF IsList(v) THEN Ok(Len(v.list))
    ELSE Raise("TypeError")

(***************************************************************************)
(* datetime: the local timezone's offset from UTC, value.astimezone() of a *)
(* naive datetime, astimezone(utc) and isoformat().                        *)
(***************************************************************************)
LocalOffset == 2

AsLocal(v) == IF IsNaive(v) THEN Aware(v.naive, LocalOffset) ELSE v

IsoFormatUtc(v) == Str(IntToStr(v.wall - v.off) \o ":00+00:00")

(***************************************************************************)
(* Embed: the object is its slots; a slot that holds no attribute is Unset *)
(***************************************************************************)
Slots == {"title", "url", "type", "_timestamp", "_colour", "_footer", "_image",
          "_thumbnail", "_video", "_provider", "_author", "_fields", "description"}

\* the slots to_dict copies under their name without the underscore
SubKeys == {"footer", "image", "thumbnail", "video", "provider", "author", "fields"}

\* '_' + attr
SlotOf == [k \in SubKeys |-> "_" \o k]

NewObject == [s \in Slots |-> Unset]

\* obj.name = value
SetSlot(o, name, value) == [o EXCEPT ![name] = value]

\* the colour property's getter
GetColour(o) == IF o["_colour"] = Unset THEN EmptyEmbed ELSE o["_colour"]

\* the timestamp property's getter
GetTimestamp(o) == IF o["_timestamp"] = Unset THEN EmptyEmbed ELSE o["_timestamp"]

\* the colour property's setter
ColourSetter(o, value) ==
    IF IsColour(value) THEN Ok(SetSlot(o, "_colour", value))
    ELSE IF IsInt(value) THEN
        LET r == ColourNew(value)
        IN IF r.exc = "none" THEN Ok(SetSlot(o, "_colour", r.val)) ELSE r
    ELSE Ok(SetSlot(o, "_colour", None))

\* the timestamp property's setter; isinstance(value, None) raises TypeError
TimestampSetter(o, value) ==
    IF IsDatetime(value) THEN Ok(SetSlot(o, "_timestamp", AsLocal(value)))
    ELSE Raise("TypeError")

(***************************************************************************)
(* Embed.__init__                                                          *)
(***************************************************************************)
\* str(self.x) unless self.x is EmptyEmbed
StrUnlessEmpty(v) == IF v = EmptyEmbed THEN v ELSE PyStr(v)

ColourOption_ColorFirst(colour, color) == IF PyTruthy(color) THEN color ELSE colour

\* the option the constructor hands to the colour setter
ColourOption(colour, color) == IF PyTruthy(colour) THEN colour ELSE color

Init__(kw) ==
    LET r1 == ColourSetter(NewObject, ColourOption(kw.colour, kw.color))
    IN IF r1.exc # "none" THEN r1
       ELSE
         LET o1 == [r1.val EXCEPT !["title"] = StrUnlessEmpty(kw.title),
                                  !["type"] = kw.type,
                                  !["url"] = StrUnlessEmpty(kw.url),
                                  !["description"] = StrUnlessEmpty(kw.description)]
         IN IF PyTruthy(kw.timestamp) THEN TimestampSetter(o1, kw.timestamp)
            ELSE Ok(o1)

(***************************************************************************)
(* Embed.from_dict                                                         *)
(***************************************************************************)
\* data.get(key, None)
DictGet(data, key) == IF key \in DOMAIN data THEN data[key] ELSE None

\* data[key]
DictItem(data, key) == IF key \in DOMAIN data THEN Ok(data[key]) ELSE Raise("KeyError")

\* str(v) if v is truthy
StrIfTruthy(v) == IF PyTruthy(v) THEN PyStr(v) ELSE v

\* Colour(value=data['color'])
ColourFromData(data) ==
    LET item == DictItem(data, "color")
    IN IF item.exc # "none" THEN item ELSE ColourNew(item.val)

\* the exceptions the try around Colour(value=data['color']) catches
FromDictCaught == {"KeyError"}

\* for attr in (...): setattr(self, '_' + attr, data[attr]) when the key is there
CopySubKeys(o, data) ==
    [s \in Slots |->
        IF \E k \in SubKeys \cap DOMAIN data : s = SlotOf[k]
        THEN data[CHOOSE k \in SubKeys \cap DOMAIN data : s = SlotOf[k]]
        ELSE o[s]]

FromDict(data) ==
    LET o1 == [NewObject EXCEPT !["title"] = StrIfTruthy(DictGet(data, "title")),
                                !["type"] = DictGet(data, "type"),
                                !["description"] = StrIfTruthy(DictGet(data, "description")),
                                !["url"] = StrIfTruthy(DictGet(data, "url"))]
        rc == ColourFromData(data)
    IN IF rc.exc = "none" THEN Ok(CopySubKeys(SetSlot(o1, "_colour", rc.val), data))
       ELSE IF rc.exc \in FromDictCaught THEN Ok(CopySubKeys(o1, data))
       ELSE rc

(***************************************************************************)
(* Embed.to_dict: the document, with the list object of _fields by         *)
(* reference as the code hands it out                                      *)
(***************************************************************************)
ToDictColour(o) ==
    IF o["_colour"] # Unset /\ PyTruthy(o["_colour"])
    THEN "color" :> Num(o["_colour"].colour) ELSE EmptyDict

ToDictTimestamp(o) ==
    IF o["_timestamp"] # Unset /\ PyTruthy(o["_timestamp"])
    THEN IF IsAware(o["_timestamp"])
         THEN "timestamp" :> IsoFormatUtc(o["_timestamp"])
         ELSE "timestamp" :> IsoFormatUtc(Aware(o["_timestamp"].naive, 0))
    ELSE EmptyDict

\* if self.x: result['x'] = self.x
ToDictPlain(o, key) == IF PyTruthy(o[key]) THEN key :> o[key] ELSE EmptyDict

ToDict(o) ==
    ToDictPlain(o, "title") @@ ToDictPlain(o, "url") @@ ToDictPlain(o, "description")
    @@ ToDictPlain(o, "type") @@ ToDictTimestamp(o) @@ ToDictColour(o)
    @@ [k \in {x \in SubKeys : o[SlotOf[x]] # Unset} |-> o[SlotOf[k]]]

\* a document with every list object replaced by its content in heap h
Resolve(d, h) == [k \in DOMAIN d |-> IF IsRef(d[k]) THEN List(h[d[k].ref]) ELSE d[k]]

\* what the caller reads in obj.to_dict()
Document(o, h) == Resolve(ToDict(o), h)

(***************************************************************************)
(* Embed.copy                                                              *)
(***************************************************************************)
Copy(o) == FromDict(ToDict(o))

(***************************************************************************)
(* Embed.__len__                                                           *)
(***************************************************************************)
\* the list getattr(self, '_fields', []) iterates
FieldsOf(o, h) ==
    IF o["_fields"] = Unset THEN <<>>
    ELSE IF IsRef(o["_fields"]) THEN h[o["_fields"].ref]
    ELSE IF IsList(o["_fields"]) THEN o["_fields"].list
    ELSE <<>>

RECURSIVE SumFields(_)
SumFields(fs) ==
    IF fs = <<>> THEN 0
    ELSE Len(Head(fs).dict["name"].str) + Len(Head(fs).dict["value"].str)
         + SumFields(Tail(fs))

\* total += len(footer_text) unless self._footer['text'] raises
LenFooter(o) ==
    IF o["_footer"] = Unset THEN Ok(0)
    ELSE IF "text" \notin DOMAIN o["_footer"].dict THEN Ok(0)
    ELSE PyLen(o["_footer"].dict["text"])

\* total += len(author['name']) unless self._author raises AttributeError
LenAuthor(o) ==
    IF o["_author"] = Unset THEN Ok(0)
    ELSE IF "name" \notin DOMAIN o["_author"].dict THEN Raise("KeyError")
    ELSE PyLen(o["_author"].dict["name"])

Len__(o, h) ==
    LET t == PyLen(o["title"])
        d == PyLen(o["description"])
        f == LenFooter(o)
        a == LenAuthor(o)
    IN IF t.exc # "none" THEN t
       ELSE IF d.exc # "none" THEN d
       ELSE IF f.exc # "none" THEN f
       ELSE IF a.exc # "none" THEN a
       ELSE Ok(t.val + d.val + SumFields(FieldsOf(o, h)) + f.val + a.val)

(***************************************************************************)
(* Embed.__bool__                                                          *)
(***************************************************************************)
\* the attributes __bool__ reads, in the order of the tuple
BoolAttrs == <<"title", "url", "description", "colour", "fields", "timestamp",
               "author", "thumbnail", "footer", "image", "provider", "video">>

\* self.name: a property of the class (colour, color, timestamp), or a slot
GetAttr(o, name) ==
    IF name \in {"colour", "color"} THEN Ok(GetColour(o))
    ELSE IF name = "timestamp" THEN Ok(GetTimestamp(o))
    ELSE IF name \in Slots /\ o[name] # Unset THEN Ok(o[name])
    ELSE Raise("AttributeError")

Bool__(o) ==
    IF \E i \in 1..Len(BoolAttrs) : GetAttr(o, BoolAttrs[i]).exc # "none"
    THEN Raise("AttributeError")
    ELSE Ok(\E i \in 1..Len(BoolAttrs) : PyTruthy(GetAttr(o, BoolAttrs[i]).val))

(***************************************************************************)
(* The setters                                                             *)
(***************************************************************************)
\* d[key] = str(v) if v is truthy
PutIfTruthy(d, key, v) == IF PyTruthy(v) THEN (key :> PyStr(v)) @@ d ELSE d

SetFooter(o, text, icon_url) ==
    SetSlot(o, "_footer",
            Dict(PutIfTruthy(PutIfTruthy(EmptyDict, "text", text),
                             "icon_url", Default(icon_url, None))))

SetUrlSlot_KeepOnFalsy(o, slot, url) ==
    IF ~PyTruthy(Default(url, None)) THEN o
    ELSE SetSlot(o, slot, Dict("url" :> PyStr(url)))

\* set_image and set_thumbnail, on their slot
SetUrlSlot(o, slot, url) ==
    IF ~PyTruthy(Default(url, None)) THEN SetSlot(o, slot, Unset)
    ELSE SetSlot(o, slot, Dict("url" :> PyStr(url)))

SetImage(o, url) == SetUrlSlot(o, "_image", url)

SetThumbnail(o, url) == SetUrlSlot(o, "_thumbnail", url)

SetAuthor(o, name, url, icon_url) ==
    SetSlot(o, "_author",
            Dict(PutIfTruthy(PutIfTruthy("name" :> PyStr(name), "url", Default(url, None)),
                             "icon_url", Default(icon_url, None))))

\* the field dict add_field builds
Field(name, value, inline) ==
    Dict([inline |-> Default(inline, Bool(TRUE)), name |-> PyStr(name),
          value |-> PyStr(value)])

\* self._fields.append(field) raises AttributeError without a list in the slot
HasFieldList(o) == IsRef(o["_fields"])

\* add_field: the object and the heap after the call
AddFieldObj(o, h, name, value, inline) ==
    IF HasFieldList(o) THEN o ELSE SetSlot(o, "_fields", Ref(Len(h) + 1))

AddFieldHeap_Prepend(o, h, name, value, inline) ==
    IF HasFieldList(o)
    THEN [h EXCEPT ![o["_fields"].ref] = <<Field(name, value, inline)>> \o @]
    ELSE Append(h, <<Field(name, value, inline)>>)

AddFieldHeap(o, h, name, value, inline) ==
    IF HasFieldList(o)
    THEN [h EXCEPT ![o["_fields"].ref] = Append(@, Field(name, value, inline))]
    ELSE Append(h, <<Field(name, value, inline)>>)

(***************************************************************************)
(* The inputs the calls are made with                                      *)
(***************************************************************************)
Ids == {"e", "c"}

DefaultKw ==
    [colour |-> EmptyEmbed, color |-> EmptyEmbed, title |-> EmptyEmbed,
     type |-> Str("rich"), url |-> EmptyEmbed, description |-> EmptyEmbed,
     timestamp |-> None]

\* the options the constructor is called with: the text options together, the
\* two spellings of the colour together, the timestamp
CtorKw ==
    {[DefaultKw EXCEPT !.title = t, !.description = d] :
        t \in {EmptyEmbed, Str(""), Str("ab")}, d \in {EmptyEmbed, Str("cd")}}
    \cup
    {[DefaultKw EXCEPT !.url = Num(7), !.type = Str("link")]}
    \cup
    {[DefaultKw EXCEPT !.colour = a, !.color = b] :
        a \in {EmptyEmbed, Num(0), Num(5)},
        b \in {EmptyEmbed, Num(0), Num(9)}}
    \cup
    {[DefaultKw EXCEPT !.color = Num(MaxColourValue + 1)]}
    \cup
    {[DefaultKw EXCEPT !.title = Str("ab"), !.timestamp = ts] :
        ts \in {Naive(10), Aware(10, 1)}}

FieldAB == Field(Str("a"), Str("b"), Bool(TRUE))

Docs ==
    { EmptyDict,
      [title |-> Str("ab"), type |-> Str("rich"), description |-> Str("cd")],
      [title |-> Str("ab"), type |-> Str("rich"), color |-> Num(5)],
      [title |-> Str("ab"), type |-> Str("rich"), color |-> Num(MaxColourValue + 1)],
      [description |-> Str("cd"), color |-> Num(0 - 1), fields |-> List(<<FieldAB>>)],
      [title |-> Num(12), author |-> Dict([name |-> Str("n")]),
       footer |-> Dict([text |-> Str("ft")]), fields |-> List(<<FieldAB>>)],
      [title |-> Str("ab"), description |-> Str("cd"), timestamp |-> Str("8:00+00:00"),
       unknown |-> Num(1)],
      [provider |-> Dict([name |-> Str("p")])],
      [video |-> Dict([url |-> Str("v")]), image |-> Dict([url |-> Str("x")])] }

\* <<text, icon_url>>
FooterArgs == {<<Str(""), Omitted>>, <<Str("ft"), Str("i")>>}
ImageUrls == {None, Str(""), Num(5)}
ThumbnailUrls == {Omitted, Str("y")}
\* <<name, url>>
AuthorArgs == {<<Num(3), Str("u")>>}
\* <<name, value, inline>>
FieldArgs == {<<Str("e"), Str("fgh"), Omitted>>, <<Num(1), Str("g"), Bool(FALSE)>>}

(***************************************************************************)
(* The calls                                                               *)
(***************************************************************************)
Call(op, id, had) == [op |-> op, id |-> id, had |-> had]

\* e = Embed(**kw)
CallInit(kw) ==
    /\ objs["e"] = NoObj
    /\ LET r == Init__(kw)
       IN /\ err' = r.exc
          /\ IF r.exc = "none"
             THEN /\ objs' = [objs EXCEPT !["e"] = r.val]
                  /\ origin' = "init"
                  /\ kwcol' = [colour |-> kw.colour, color |-> kw.color]
             ELSE UNCHANGED <<objs, origin, kwcol>>
    /\ last' = Call("init", "e", FALSE)
    /\ UNCHANGED <<heap, calls, log, clientVars>>

\* the caller's document in memory: its list literal is a list object
DocInMemory(doc, h) ==
    [k \in DOMAIN doc |-> IF IsList(doc[k]) THEN Ref(Len(h) + 1) ELSE doc[k]]

DocLists(doc) == {k \in DOMAIN doc : IsList(doc[k])}

\* e = Embed.from_dict(doc)
CallFromDict(doc) ==
    /\ objs["e"] = NoObj
    /\ LET r == FromDict(DocInMemory(doc, heap))
       IN /\ err' = r.exc
          /\ IF r.exc = "none"
             THEN /\ objs' = [objs EXCEPT !["e"] = r.val]
                  /\ origin' = "from_dict"
                  /\ heap' = IF DocLists(doc) = {} THEN heap
                             ELSE Append(heap, doc[CHOOSE k \in DocLists(doc) : TRUE].list)
             ELSE UNCHANGED <<objs, origin, heap>>
    /\ last' = Call("from_dict", "e", FALSE)
    /\ UNCHANGED <<calls, kwcol, log, clientVars>>

\* c = e.copy()
CallCopy ==
    /\ objs["e"] # NoObj
    /\ objs["c"] = NoObj
    /\ LET r == Copy(objs["e"])
       IN /\ err' = r.exc
          /\ IF r.exc = "none"
             THEN objs' = [objs EXCEPT !["c"] = r.val]
             ELSE UNCHANGED objs
    /\ last' = Call("copy", "c", FALSE)
    /\ UNCHANGED <<heap, calls, origin, kwcol, log, clientVars>>

\* the guard of every setter call: the object exists, the call budget is left
CanCall(id) == objs[id] # NoObj /\ calls < MaxCalls

\* objs[id].set_footer(text=text, icon_url=icon_url)
CallSetFooter(id, text, icon_url) ==
    /\ CanCall(id)
    /\ objs' = [objs EXCEPT ![id] = SetFooter(@, text, icon_url)]
    /\ last' = Call("set_footer", id, objs[id]["_footer"] # Unset)
    /\ calls' = calls + 1
    /\ err' = "none"
    /\ UNCHANGED <<heap, origin, kwcol, log, clientVars>>

\* objs[id].set_image(url=url)
CallSetImage(id, url) ==
    /\ CanCall(id)
    /\ objs' = [objs EXCEPT ![id] = SetImage(@, url)]
    /\ last' = Call("set_image", id, objs[id]["_image"] # Unset)
    /\ calls' = calls + 1
    /\ err' = "none"
    /\ UNCHANGED <<heap, origin, kwcol, log, clientVars>>

\* objs[id].set_thumbnail(url=url)
CallSetThumbnail(id, url) ==
    /\ CanCall(id)
    /\ objs' = [objs EXCEPT ![id] = SetThumbnail(@, url)]
    /\ last' = Call("set_thumbnail", id, objs[id]["_thumbnail"] # Unset)
    /\ calls' = calls + 1
    /\ err' = "none"
    /\ UNCHANGED <<heap, origin, kwcol, log, clientVars>>

\* objs[id].set_author(name=name, url=url)
CallSetAuthor(id, name, url) ==
    /\ CanCall(id)
    /\ objs' = [objs EXCEPT ![id] = SetAuthor(@, name, url, Omitted)]
    /\ last' = Call("set_author", id, objs[id]["_author"] # Unset)
    /\ calls' = calls + 1
    /\ err' = "none"
    /\ UNCHANGED <<heap, origin, kwcol, log, clientVars>>

\* objs[id].add_field(name=name, value=value, inline=inline)
CallAddField(id, name, value, inline) ==
    /\ CanCall(id)
    /\ objs' = [objs EXCEPT ![id] = AddFieldObj(@, heap, name, value, inline)]
    /\ heap' = AddFieldHeap(objs[id], heap, name, value, inline)
    /\ log' = IF id = "e" THEN Append(log, <<name, value, inline>>) ELSE log
    /\ last' = Call("add_field", id, objs[id]["_fields"] # Unset)
    /\ calls' = calls + 1
    /\ err' = "none"
    /\ UNCHANGED <<origin, kwcol, clientVars>>

Init ==
    /\ objs = [id \in Ids |-> NoObj]
    /\ heap = <<>>
    /\ err = "none"
    /\ calls = 0
    /\ origin = "none"
    /\ kwcol = [colour |-> EmptyEmbed, color |-> EmptyEmbed]
    /\ log = <<>>
    /\ last = Call("none", "e", FALSE)
    /\ clients = <<>>
    /\ nclients = 0
    /\ http = <<>>

Next ==
    \/ \E kw \in CtorKw : CallInit(kw)
    \/ \E doc \in Docs : CallFromDict(doc)
    \/ CallCopy
    \/ \E id \in Ids, a \in FooterArgs : CallSetFooter(id, a[1], a[2])
    \/ \E id \in Ids, url \in ImageUrls : CallSetImage(id, url)
    \/ \E id \in Ids, url \in ThumbnailUrls : CallSetThumbnail(id, url)
    \/ \E id \in Ids, a \in AuthorArgs : CallSetAuthor(id, a[1], a[2])
    \/ \E id \in Ids, a \in FieldArgs : CallAddField(id, a[1], a[2], a[3])

Spec == Init /\ [][Next]_vars

(***************************************************************************)
(* WebhookClient                                                           *)
(***************************************************************************)
CheckWebhook_AcceptAll(status) == Ok(None)

\* check_webhook: the status the GET returned
CheckWebhook(status) ==
    IF status \in {200, 204} THEN Ok(None) ELSE Raise("InvalidWebhook")

IsEmbed(v) == DOMAIN v = Slots

\* WebhookClient.to_dict
ClientToDict(embed) ==
    IF IsDict(embed) THEN embed
    ELSE IF IsEmbed(embed) THEN Dict(ToDict(embed))
    ELSE Dict([title |-> Str("Invalid Embed.")])

build_json(webhook_url, content, embeds, username, avatar_url, tts) ==
    [content |-> content,
     embeds |-> IF PyTruthy(embeds)
                THEN List([i \in 1..Len(embeds.list) |-> ClientToDict(embeds.list[i])])
                ELSE List(<<>>),
     username |-> username,
     avatar_url |-> avatar_url,
     tts |-> tts]

build_query(webhook_url, thread_id) ==
    IF PyTruthy(Default(thread_id, None))
    THEN Str(PyStr(webhook_url).str \o "?thread_id=" \o PyStr(thread_id).str)
    ELSE PyStr(webhook_url)

WebhookUrls == {Str("https://hook")}
Statuses == {200, 204, 404}
ThreadIds == {Omitted, Num(0), Num(7)}

\* an Embed the caller built, a document, and a value that is neither
TitledEmbed == Init__([DefaultKw EXCEPT !.title = Str("Hello, world.")]).val

\* <<content, embeds>>
Messages ==
    { <<Str("Hello world"), Omitted>>,
      <<Omitted, List(<<TitledEmbed, Dict([title |-> Str("d")]), Num(1)>>)>> }

\* WebhookClient(webhook_url): the URL is probed with a GET that returns status
CallNewClient(webhook_url, status) ==
    /\ Len(http) < MaxRequests
    /\ nclients' = nclients + 1
    /\ http' = Append(http, [method |-> "GET", client |-> nclients + 1,
                             url |-> PyStr(webhook_url), status |-> status])
    /\ LET r == CheckWebhook(status)
       IN /\ err' = r.exc
          /\ IF r.exc = "none"
             THEN clients' = ((nclients + 1) :>
                                 [webhook_url |-> webhook_url, username |-> None,
                                  avatar_url |-> None]) @@ clients
             ELSE UNCHANGED clients
    /\ UNCHANGED embedVars

\* clients[k].send(content, embeds, thread_id=thread_id)
CallSend(k, content, embeds, thread_id) ==
    /\ k \in DOMAIN clients
    /\ Len(http) < MaxRequests
    /\ http' = Append(http,
                 [method |-> "POST", client |-> k,
                  url |-> build_query(clients[k].webhook_url, thread_id),
                  json |-> build_json(clients[k].webhook_url, Default(content, None), Default(embeds, None),
                                      clients[k].username, clients[k].avatar_url,
                                      Bool(FALSE)),
                  thread_id |-> thread_id])
    /\ err' = "none"
    /\ UNCHANGED <<clients, nclients, embedVars>>

NextClient ==
    \/ \E u \in WebhookUrls, st \in Statuses : CallNewClient(u, st)
    \/ \E k \in 1..MaxRequests, m \in Messages, t \in ThreadIds :
          CallSend(k, m[1], m[2], t)

SpecClient == Init /\ [][NextClient]_vars

(***************************************************************************)
(* Properties                                                              *)
(***************************************************************************)
Built(id) == objs[id] # NoObj

\* the step is a setter call on objs[id]
SetterStep(id) == calls' = calls + 1 /\ last'.id = id

Other(id) == IF id = "e" THEN "c" ELSE "e"

\* C1: an Embed built by the constructor and the setters survives the round trip:
\* Embed.from_dict(e.to_dict()).to_dict() is deep-equal to e.to_dict().
C1_RoundTrip ==
    origin = "init" =>
        LET r == FromDict(ToDict(objs["e"]))
        IN /\ r.exc = "none"
           /\ Document(r.val, heap) = Document(objs["e"], heap)

\* what "present / non-empty" means for the fields C2 lists
AnyPresent(o, h) ==
    \/ PyTruthy(o["title"]) \/ PyTruthy(o["url"]) \/ PyTruthy(o["description"])
    \/ PyTruthy(GetColour(o))
    \/ Len(FieldsOf(o, h)) > 0
    \/ PyTruthy(GetTimestamp(o))
    \/ \E s \in {"_author", "_thumbnail", "_footer", "_image", "_provider", "_video"} :
          o[s] # Unset /\ PyTruthy(o[s])

\* C2: bool(embed) returns, without raising, whether at least one of title, url,
\* description, colour, fields, timestamp, author, thumbnail, footer, image,
\* provider, video is present and non-empty.
C2_Truthiness ==
    \A id \in Ids :
        Built(id) =>
            /\ Bool__(objs[id]).exc = "none"
            /\ Bool__(objs[id]).val = AnyPresent(objs[id], heap)

\* the number of characters of a text that may be absent
TextLen(v) == IF IsStr(v) THEN Len(v.str) ELSE 0

SubText(o, slot, key) ==
    IF o[slot] # Unset /\ IsDict(o[slot]) /\ key \in DOMAIN o[slot].dict
    THEN TextLen(o[slot].dict[key]) ELSE 0

\* C3: len(embed) returns, without raising, len(title) + len(description) + the
\* sum over the fields of len(name) + len(value) + len(footer text) +
\* len(author name), an absent part counting 0.
C3_LengthAdditive ==
    \A id \in Ids :
        Built(id) =>
            /\ Len__(objs[id], heap).exc = "none"
            /\ Len__(objs[id], heap).val =
                  TextLen(objs[id]["title"]) + TextLen(objs[id]["description"])
                  + SumFields(FieldsOf(objs[id], heap))
                  + SubText(objs[id], "_footer", "text")
                  + SubText(objs[id], "_author", "name")

\* C4: copy() yields an independent instance: once c = e.copy() exists, a setter
\* call on one of e and c leaves the to_dict() of the other unchanged.
C4_CopyIndependent ==
    [][\A id \in Ids :
          (Built("e") /\ Built("c") /\ SetterStep(id)) =>
              Document(objs'[Other(id)], heap') = Document(objs[Other(id)], heap)]_vars

\* the keys of the fields that are set on an Embed built by the constructor
\* and the setters, the colour apart
SetKeys(o) ==
    {k \in {"title", "description", "url"} : o[k] # EmptyEmbed}
    \cup (IF o["_timestamp"] # Unset THEN {"timestamp"} ELSE {})
    \cup {k \in SubKeys : o[SlotOf[k]] # Unset}
    \cup {"type"}

\* C5: for an Embed built by the constructor and the setters, the keys of
\* to_dict() are exactly the fields that are set, plus type; a colour key is
\* there only if a colour is set; no key carries None.
C5_AbsenceIsAbsence ==
    origin = "init" =>
        LET d == Document(objs["e"], heap)
        IN /\ DOMAIN d \ {"color"} = SetKeys(objs["e"])
           /\ ("color" \in DOMAIN d => IsColour(objs["e"]["_colour"]))
           /\ \A k \in DOMAIN d : d[k] # None

\* a document without key
Without(d, key) == [k \in DOMAIN d \ {key} |-> d[k]]

\* what C6 says of a call of set_image or set_thumbnail with url on objs[id]
UrlSetterPost(id, slot, key, url) ==
    /\ err' = "none"
    /\ objs'[id] # NoObj
    /\ \A before \in {Document(objs[id], heap)}, after \in {Document(objs'[id], heap')} :
          /\ IF url = Omitted \/ url = None \/ url = Str("") \/ url = Num(0)
             THEN key \notin DOMAIN after
             ELSE key \in DOMAIN after /\ after[key] = Dict([url |-> PyStr(url)])
          /\ Without(after, key) = Without(before, key)
    /\ \A s \in Slots \ {slot} : objs'[id][s] = objs[id][s]
    /\ objs'[Other(id)] = objs[Other(id)]
    /\ heap' = heap

\* C6: set_image and set_thumbnail with a truthy url store exactly
\* {url: str(url)}; with a falsy url (empty, None, omitted) they remove the key,
\* and do not raise when it is not there; no other field changes.
C6_ClearViaFalsyUrl ==
    [][/\ last'.op = "set_image" =>
            \A url \in ImageUrls :
                CallSetImage(last'.id, url) =>
                    UrlSetterPost(last'.id, "_image", "image", url)
       /\ last'.op = "set_thumbnail" =>
            \A url \in ThumbnailUrls :
                CallSetThumbnail(last'.id, url) =>
                    UrlSetterPost(last'.id, "_thumbnail", "thumbnail", url)]_vars

\* a set_image call with a falsy url has removed an image that was set
C6_Witness ==
    /\ last.op = "set_image"
    /\ last.had
    /\ Built(last.id)
    /\ "image" \notin DOMAIN Document(objs[last.id], heap)
    /\ err = "none"

\* the entry of to_dict()['fields'] C7 expects of add_field(name, value, inline)
LoggedField(call) ==
    Dict([name |-> PyStr(call[1]), value |-> PyStr(call[2]),
          inline |-> IF call[3] = Omitted THEN Bool(TRUE) ELSE call[3]])

\* while e is the only Embed, to_dict()['fields'] of e is the add_field calls
\* made on e, in call order; without a call there is no key
FieldsAreTheCalls ==
    (origin = "init" /\ ~Built("c")) =>
        LET d == Document(objs["e"], heap)
        IN IF log = <<>> THEN "fields" \notin DOMAIN d
           ELSE /\ "fields" \in DOMAIN d
                /\ d["fields"] = List([i \in 1..Len(log) |-> LoggedField(log[i])])

\* the entries of to_dict()['fields'], none without the key
FieldEntries(o, h) ==
    IF "fields" \in DOMAIN Document(o, h) THEN Document(o, h)["fields"].list ELSE <<>>

\* an add_field call appends its entry after the entries that were there; no
\* other setter call changes the entries
FieldStep ==
    /\ last'.op = "add_field" =>
          \A a \in FieldArgs :
              CallAddField(last'.id, a[1], a[2], a[3]) =>
                  /\ "fields" \in DOMAIN Document(objs'[last'.id], heap')
                  /\ FieldEntries(objs'[last'.id], heap') =
                        Append(FieldEntries(objs[last'.id], heap), LoggedField(a))
    /\ (calls' = calls + 1 /\ last'.op # "add_field") =>
          FieldEntries(objs'[last'.id], heap') = FieldEntries(objs[last'.id], heap)

\* C7: to_dict()['fields'] has one entry per add_field call, in call order, each
\* {name: str(name), value: str(value), inline: inline} with inline True when
\* omitted; the first call creates the sequence, and no call removes or reorders
\* earlier entries.
C7_FieldOrder == []FieldsAreTheCalls /\ [][FieldStep]_vars

\* two add_field calls with different arguments, between them another setter
C7_Witness ==
    /\ origin = "init" /\ ~Built("c")
    /\ Len(log) = 2 /\ log[1] # log[2]
    /\ calls = 3
    /\ Len(Document(objs["e"], heap)["fields"].list) = 2

\* the document's color cannot be turned into a Colour
MalformedColour(doc) == "color" \in DOMAIN doc /\ ColourNew(doc["color"]).exc # "none"

\* C8: from_dict of a document whose color is malformed still returns an Embed,
\* no error reaches the caller, and the Embed has no colour and no color key.
C8_MalformedColourSwallowed ==
    [][\A doc \in Docs :
          (CallFromDict(doc) /\ MalformedColour(doc)) =>
              /\ err' = "none"
              /\ objs'["e"] # NoObj
              /\ GetColour(objs'["e"]) = EmptyEmbed
              /\ "color" \notin DOMAIN Document(objs'["e"], heap')]_vars

\* the requests of one client
Gets(k) == {i \in 1..Len(http) : http[i].method = "GET" /\ http[i].client = k}
Posts(k) == {i \in 1..Len(http) : http[i].method = "POST" /\ http[i].client = k}

\* every POST follows the one probe of its client, which returned 200 or 204;
\* a client whose probe returned another status raised InvalidWebhook and posts nothing
ProbeBeforeSend ==
    /\ \A i \in 1..Len(http) :
          http[i].method = "POST" =>
              /\ Cardinality(Gets(http[i].client)) = 1
              /\ \E j \in 1..(i - 1) :
                    /\ j \in Gets(http[i].client)
                    /\ http[j].status \in {200, 204}
    /\ \A j \in 1..Len(http) :
          (http[j].method = "GET" /\ http[j].status \notin {200, 204}) =>
              /\ Posts(http[j].client) = {}
              /\ http[j].client \notin DOMAIN clients
              /\ (j = Len(http) => err = "InvalidWebhook")

\* the URL of the probe of the client that issued request i
BaseUrl(i) == http[CHOOSE j \in Gets(http[i].client) : TRUE].url.str

\* C9 as claimed: probe before send, and the POST URL is the webhook URL with
\* ?thread_id=<id> appended when a thread_id is given, unchanged otherwise.
C9_ProbeBeforeSend_Original ==
    /\ ProbeBeforeSend
    /\ \A i \in 1..Len(http) :
          http[i].method = "POST" =>
              http[i].url.str =
                  IF http[i].thread_id \notin {Omitted, None}
                  THEN BaseUrl(i) \o "?thread_id=" \o PyStr(http[i].thread_id).str
                  ELSE BaseUrl(i)

\* C9 as amended: probe before send, and the POST URL is the webhook URL with
\* ?thread_id=<id> appended when the thread_id is truthy (given, and not 0),
\* unchanged otherwise.
C9_ProbeBeforeSend ==
    /\ ProbeBeforeSend
    /\ \A i \in 1..Len(http) :
          http[i].method = "POST" =>
              http[i].url.str =
                  IF http[i].thread_id \notin {Omitted, None, Num(0)}
                  THEN BaseUrl(i) \o "?thread_id=" \o PyStr(http[i].thread_id).str
                  ELSE BaseUrl(i)

\* a client whose probe failed, and a client that posted to a thread and to the
\* webhook itself
C9_Witness ==
    /\ \E j \in 1..Len(http) : http[j].method = "GET" /\ http[j].status = 404
    /\ \E i \in 1..Len(http) :
          http[i].method = "POST" /\ http[i].url = Str("https://hook?thread_id=7")
    /\ \E i \in 1..Len(http) :
          http[i].method = "POST" /\ http[i].thread_id = Num(0)
                                  /\ http[i].url = Str("https://hook")

\* an option that is supplied with a non-empty value
NonEmpty(v) == v # EmptyEmbed /\ PyTruthy(v)

\* the stored colour is the one of the option v, and it is serialized
ColourIs(v) ==
    /\ GetColour(objs["e"]) = [colour |-> v.int]
    /\ "color" \in DOMAIN Document(objs["e"], heap)
    /\ Document(objs["e"], heap)["color"] = v

ColourAbsent ==
    /\ ~PyTruthy(GetColour(objs["e"]))
    /\ "color" \notin DOMAIN Document(objs["e"], heap)

\* what C10 says when at most one spelling has a non-empty value
ColourOneOrNone ==
    /\ (NonEmpty(kwcol.colour) /\ ~NonEmpty(kwcol.color)) => ColourIs(kwcol.colour)
    /\ (NonEmpty(kwcol.color) /\ ~NonEmpty(kwcol.colour)) => ColourIs(kwcol.color)
    /\ (kwcol.colour = EmptyEmbed /\ kwcol.color = EmptyEmbed) => ColourAbsent

\* C10 as claimed: with both spellings non-empty, the value given as color is
\* stored and serialized and the one given as colour is ignored.
C10_ColourPrecedence_Original ==
    origin = "init" =>
        /\ ColourOneOrNone
        /\ (NonEmpty(kwcol.colour) /\ NonEmpty(kwcol.color)) => ColourIs(kwcol.color)

\* C10 as amended: with both spellings non-empty, the value given as colour is
\* stored and serialized and the one given as color is ignored.
C10_ColourPrecedence ==
    origin = "init" =>
        /\ ColourOneOrNone
        /\ (NonEmpty(kwcol.colour) /\ NonEmpty(kwcol.color)) => ColourIs(kwcol.colour)

\* an Embed built with both spellings non-empty and different
C10_Witness ==
    /\ origin = "init"
    /\ NonEmpty(kwcol.colour) /\ NonEmpty(kwcol.color)
    /\ kwcol.colour # kwcol.color
    /\ ColourIs(kwcol.colour)

=============================================================================
